---- MODULE Spec2Model ----
(***************************************************************************)
(* Model of parlai/crowdsourcing/tasks/multi_model_chat/multiparty_worlds.py *)
(*                                                                         *)
(*   MultipartyChatWorld.parley        the turn-taking state machine       *)
(*   make_world                        the model-variant selection         *)
(*   ContextGenerator                  the scenario selection              *)
(*                                                                         *)
(* Python values are modelled as follows.  An optional value (a dict key   *)
(* that may be missing, or a value that may be None) is a sequence of      *)
(* length at most one: None is << >> and Some(v) is <<v>>.  A string that  *)
(* the code splits is a sequence of one-character strings.  A Message is a *)
(* record with the keys the code reads or writes.                          *)
(***************************************************************************)
EXTENDS Integers, Sequences, FiniteSets, TLC

VARIABLES
    \* ---- MultipartyChatWorld (one conversation) ----
    task_turn_idx,      \* self.task_turn_idx
    chat_done,          \* self.chat_done
    dialog,             \* self.dialog
    include_persona,    \* self.opt['include_persona']
    has_location,       \* 'location' in self.context_info
    persona_is_dict,    \* isinstance(self.personas[1], dict)
    bot_agent_id,       \* self.bot.agent_id
    agent_agent_id,     \* self.agent.agent_id
    act,                \* the local variable act when the invocation ended
    exc,                \* the exception the last invocation raised ("none": it returned)
    events,             \* the calls made by the last invocation, in order
    sink,               \* the final chat data written (state.messages and the file)
    grants,             \* number of grant_qualification(block_qualification) calls
    calls,              \* number of parley invocations made so far
    \* ---- make_world (concurrently starting conversations) ----
    conversations_needed, \* opt['conversations_needed']
    run_statistics,     \* opt['run_statistics']
    lock,               \* the holder of opt['statistics_condition']
    pc,                 \* position of each make_world call
    model_name,         \* the local model_name of each make_world call
    \* ---- ContextGenerator ----
    global_rng,         \* state of the module-level generator of `random`
    gen_seed,           \* seed each ContextGenerator was constructed with
    gen_rng,            \* state of each ContextGenerator's self.rng
    contexts            \* the contexts each ContextGenerator returned, in order

parleyVars == <<task_turn_idx, chat_done, dialog, include_persona, has_location,
                persona_is_dict, bot_agent_id, agent_agent_id, act, exc, events,
                sink, grants, calls>>
worldVars == <<conversations_needed, run_statistics, lock, pc, model_name>>
ctxVars == <<global_rng, gen_seed, gen_rng, contexts>>
vars == <<parleyVars, worldVars, ctxVars>>

----------------------------------------------------------------------------
(* Bounds of the model *)

MaxCalls == 3          \* parley invocations per conversation
NumStarters == 2       \* concurrent make_world calls
MaxNeeded == 2         \* largest conversations_needed entry
MaxSeed == 2           \* seeds are 0..MaxSeed
MaxContextCalls == 2   \* get_context calls per ContextGenerator

----------------------------------------------------------------------------
(* Optional values *)

None == << >>
Some(v) == <<v>>

----------------------------------------------------------------------------
(* Strings that are split: sequences of characters *)

BR == <<"<", "b", "r", ">">>                        \* '<br>'
TextHi == <<"h", "i">>                              \* 'hi'
TextHiBrX == <<"h", "i", "<", "b", "r", ">", "x">>  \* 'hi<br>x'
TextPartial == <<"h", "<", "b">>                    \* 'h<b'
TextBrABr == <<"<", "b", "r", ">", "a", "<", "b", "r", ">">>  \* '<br>a<br>'
TextHello == <<"h", "e", "l", "l", "o">>             \* 'hello'
TextHelloBrExtra == TextHello \o BR \o <<"e", "x", "t", "r", "a">>  \* 'hello<br>extra'
Texts == {TextHi, TextHiBrX, TextPartial, TextBrABr, TextHello, TextHelloBrExtra}
BotTexts == {TextHiBrX, TextPartial}     \* texts the bot says
HumanTexts == {TextHi, TextHelloBrExtra} \* texts the human says

RATING_ACTION_TEXT == <<"THIS IS A RATING ACTION">>
PERSONA_SETTER_AGENT == "persona-agent"
NULL_ID == "NULL_ID"

\* The positions at which delimiter d occurs in s
Occurrences(s, d) ==
    {i \in 1..(Len(s) - Len(d) + 1) : SubSeq(s, i, i + Len(d) - 1) = d}

\* Mutant: the text is not split
SplitNothing(s, d) == s

\* s.split(d)[0]: the part of s before the first occurrence of d (all of s
\* when d does not occur)
SplitFirst(s, d) ==
    IF Occurrences(s, d) = {}
    THEN s
    ELSE LET first == CHOOSE i \in Occurrences(s, d) :
                          \A j \in Occurrences(s, d) : i <= j
         IN SubSeq(s, 1, first - 1)

----------------------------------------------------------------------------
(* Messages: the acts of the bot and of the human *)

HumanName == "grass snake"     \* self.personas[0]['name']
BotName == "tribesman"

Ratings == {[score |-> 4], [score |-> 5]}
ProblemData == {"p1"}

TaskDatas ==
    {[final_rating |-> r, problem_data_for_prior_message |-> p] :
        r \in {None} \cup {Some(x) : x \in Ratings},
        p \in {None} \cup {Some(x) : x \in ProblemData}}

Message(text, id, human_turn, task_data) ==
    [text |-> text, id |-> id, human_turn |-> human_turn,
     task_data |-> task_data, needs_rating |-> None]

\* What self.bot.act() can return
BotActs ==
    {Message(t, i, h, None) :
        t \in BotTexts,
        i \in {None, Some(BotName)},
        h \in {None, Some(TRUE), Some(FALSE)}}

\* What self.agent.act(timeout=...) can return
HumanActs ==
    {Message(t, Some("agent"), None, td) :
        t \in HumanTexts,
        td \in {None} \cup {Some(x) : x \in TaskDatas}}

\* ... or it does not return within the timeout
HumanResponses == {None} \cup {Some(a) : a \in HumanActs}

\* What the acceptability checker can report in get_final_chat_data
Violations == {None, Some(""), Some("rude")}

----------------------------------------------------------------------------
(* The calls an invocation makes on its collaborators, in order *)

Event(call) ==
    [call |-> call, id |-> "", personas |-> FALSE, location |-> FALSE,
     increment_turn |-> "n/a", needs_rating |-> FALSE,
     outcome |-> "", text |-> << >>, human_turn |-> None, task_data |-> None]

\* self.bot.act(), line 93, and the act it returned
BotActEvent(a) ==
    [Event("bot.act") EXCEPT
        !.outcome = "returned",
        !.id = IF a.id = None THEN "" ELSE a.id[1],
        !.text = a.text,
        !.human_turn = a.human_turn]

\* self.agent.act(timeout=self.max_resp_time), lines 98 and 120: the act it
\* returned, or the timeout
AgentActEvent(h) ==
    IF h = None
    THEN [Event("agent.act") EXCEPT !.outcome = "timeout"]
    ELSE [Event("agent.act") EXCEPT
            !.outcome = "returned",
            !.id = h[1].id[1],
            !.text = h[1].text,
            !.task_data = h[1].task_data]

\* Mutant: increment_turn=False is not passed to the bot
BotPersonaObservationCounted ==
    [call |-> "bot.observe", id |-> PERSONA_SETTER_AGENT, personas |-> TRUE,
     location |-> has_location, increment_turn |-> "default",
     needs_rating |-> FALSE,
     outcome |-> "", text |-> << >>, human_turn |-> None, task_data |-> None]

\* self.bot.observe(validate(message), increment_turn=False), lines 47-57
BotPersonaObservation ==
    [call |-> "bot.observe", id |-> PERSONA_SETTER_AGENT, personas |-> TRUE,
     location |-> has_location, increment_turn |-> "False",
     needs_rating |-> FALSE,
     outcome |-> "", text |-> << >>, human_turn |-> None, task_data |-> None]

\* self.agent.observe(validate({...})), lines 60-71: increment_turn is not passed
AgentPersonaObservation ==
    [call |-> "agent.observe", id |-> PERSONA_SETTER_AGENT, personas |-> TRUE,
     location |-> TRUE, increment_turn |-> "default", needs_rating |-> FALSE,
     outcome |-> "", text |-> << >>, human_turn |-> None, task_data |-> None]

\* self.bot.observe(validate(act)), line 114
BotObservation(a) ==
    [Event("bot.observe") EXCEPT !.id = a.id[1], !.increment_turn = "default"]

\* Mutant: the act is delivered without the needs_rating flag
AgentObservationUnflagged(a) ==
    [Event("agent.observe") EXCEPT
        !.id = IF a.id = None THEN NULL_ID ELSE a.id[1],
        !.increment_turn = "default"]

\* self.agent.observe(validate(act)), line 117
AgentObservation(a) ==
    [Event("agent.observe") EXCEPT
        !.id = IF a.id = None THEN NULL_ID ELSE a.id[1],
        !.increment_turn = "default",
        !.needs_rating = (a.needs_rating = Some(TRUE))]

----------------------------------------------------------------------------
(* MultipartyChatWorld *)

\* _run_initial_turn: the exception it raises and the observations it delivered
\* before that.  It always clears both agent ids first.
run_initial_turn ==
    IF ~include_persona
    THEN [exc |-> "none", events |-> << >>]
    ELSE IF ~persona_is_dict
    THEN [exc |-> "AssertionError", events |-> << >>]
    ELSE IF ~has_location
    THEN [exc |-> "KeyError", events |-> <<BotPersonaObservation>>]
    ELSE [exc |-> "none",
          events |-> <<BotPersonaObservation, AgentPersonaObservation>>]

\* Mutant: any task_data counts as a final rating
has_final_rating_any_task_data(a) ==
    a.task_data # None

\* has_final_rating(act)
has_final_rating(a) ==
    /\ a.task_data # None
    /\ a.task_data[1].final_rating # None

\* The utterance_data built from an act, lines 105-110
Utterance(agent_idx, a) ==
    [agent_idx |-> agent_idx,
     text |-> SplitFirst(a.text, BR),
     id |-> IF a.id = None THEN NULL_ID ELSE a.id[1],
     problem_data |-> None,
     final_rating |-> None]

\* The position of a Python list index in a sequence (negative: from the end)
PyIndex(d, i) == IF i < 0 THEN Len(d) + i + 1 ELSE i + 1

\* Mutant: the second assertion is missing, existing problem data is overwritten
add_problem_data_overwriting(d, p, turn_idx) ==
    LET k == PyIndex(d, turn_idx) IN
    IF d[k].agent_idx # 1
    THEN [exc |-> "AssertionError", dialog |-> d]
    ELSE [exc |-> "none", dialog |-> [d EXCEPT ![k].problem_data = Some(p)]]

\* Mutant: the first assertion expects an utterance of the human
add_problem_data_expecting_human(d, p, turn_idx) ==
    LET k == PyIndex(d, turn_idx) IN
    IF d[k].agent_idx # 0
    THEN [exc |-> "AssertionError", dialog |-> d]
    ELSE IF d[k].problem_data # None
    THEN [exc |-> "AssertionError", dialog |-> d]
    ELSE [exc |-> "none", dialog |-> [d EXCEPT ![k].problem_data = Some(p)]]

\* __add_problem_data_to_utterance(p, turn_idx) on dialog d
add_problem_data_to_utterance(d, p, turn_idx) ==
    LET k == PyIndex(d, turn_idx) IN
    IF d[k].agent_idx # 1
    THEN [exc |-> "AssertionError", dialog |-> d]
    ELSE IF d[k].problem_data # None
    THEN [exc |-> "AssertionError", dialog |-> d]
    ELSE [exc |-> "none", dialog |-> [d EXCEPT ![k].problem_data = Some(p)]]

\* get_final_chat_data(): the dialog and what the acceptability checker found
get_final_chat_data(d, v) ==
    [dialog |-> d, acceptability_violations |-> <<v>>]

\* Mutant: the empty violations string also blocks the worker
violations_detected_on_empty(v) == v # None

\* The soft-block condition, line 171
violations_detected(v) == v # None /\ v # Some("")

\* The result of an invocation: the new values of the fields it can change
Result(d, done, idx, a, e, ev, s, g) ==
    [dialog |-> d, chat_done |-> done, task_turn_idx |-> idx, act |-> a,
     exc |-> e, events |-> ev, sink |-> s, grants |-> g]

\* Mutant: the final rating is written onto the first utterance, not the last
finish_on_first(d, done, idx, a, ev, v) ==
    IF ~done \/ a = None \/ d = << >>
    THEN Result(d, done, idx, a, "none", ev, sink, grants)
    ELSE
      LET d1 == [d EXCEPT ![1].final_rating = a[1].task_data[1].final_rating]
          final_chat_data == get_final_chat_data(d1, v)
      IN Result(d1, done, idx, a, "none", ev, Append(sink, final_chat_data),
                grants + (IF violations_detected(v) THEN 1 ELSE 0))

\* Mutant: the final chat data is assembled (as a copy) and written before
\* the final rating is put on the last utterance
finish_rating_last(d, done, idx, a, ev, v) ==
    IF ~done \/ a = None \/ d = << >>
    THEN Result(d, done, idx, a, "none", ev, sink, grants)
    ELSE
      LET final_chat_data == get_final_chat_data(d, v)
          d1 == [d EXCEPT ![Len(d)].final_rating = a[1].task_data[1].final_rating]
          ev1 == ev \o <<Event("get_final_chat_data"), Event("write"),
                         Event("set final_rating")>>
      IN Result(d1, done, idx, a, "none", ev1, Append(sink, final_chat_data),
                grants)

\* Lines 132-178, entered with dialog d, local act a, turn index idx and the
\* calls ev made so far; v is what the acceptability checker reports
finish(d, done, idx, a, ev, v) ==
    IF ~done
    THEN Result(d, done, idx, a, "none", ev, sink, grants)
    ELSE IF a = None
    THEN Result(d, done, idx, a, "TypeError", ev, sink, grants)
    ELSE IF a[1].task_data = None
    THEN Result(d, done, idx, a, "KeyError", ev, sink, grants)
    ELSE IF d = << >>
    THEN Result(d, done, idx, a, "IndexError", ev, sink, grants)
    ELSE
      LET d1 == [d EXCEPT ![Len(d)].final_rating = a[1].task_data[1].final_rating]
          final_chat_data == get_final_chat_data(d1, v)
          violations == final_chat_data.acceptability_violations[1]
          ev1 == ev \o <<Event("set final_rating"),
                         Event("get_final_chat_data"), Event("write")>>
      IN IF violations_detected(violations)
         THEN Result(d1, done, idx, a, "none",
                     ev1 \o <<Event("grant_qualification")>>,
                     Append(sink, final_chat_data), grants + 1)
         ELSE Result(d1, done, idx, a, "none", ev1,
                     Append(sink, final_chat_data), grants)

\* Mutant: the turn index is advanced in the bot's branch only
human_branch_no_increment(bot_act, h, v) ==
    LET ev0 == <<BotActEvent(bot_act), AgentActEvent(h)>> IN
    IF h = None
    THEN Result(dialog, chat_done, task_turn_idx, Some(bot_act),
                "TimeoutError", ev0, sink, grants)
    ELSE
      LET done == has_final_rating(h[1])
          a == [h[1] EXCEPT !.id = Some(HumanName)]
          d1 == Append(dialog, Utterance(0, a))
          ev1 == ev0 \o <<Event("dialog.append"), BotObservation(a)>>
      IN finish(d1, done, task_turn_idx, Some(a), ev1, v)

\* Mutant: a timeout of the human is swallowed and the turn is counted
human_branch_swallowing_timeout(bot_act, h, v) ==
    LET ev0 == <<BotActEvent(bot_act), AgentActEvent(h)>> IN
    IF h = None
    THEN Result(dialog, chat_done, task_turn_idx + 1, Some(bot_act),
                "none", ev0 \o <<Event("task_turn_idx += 1")>>, sink, grants)
    ELSE
      LET done == has_final_rating(h[1])
          a == [h[1] EXCEPT !.id = Some(HumanName)]
          d1 == Append(dialog, Utterance(0, a))
          ev1 == ev0 \o <<Event("dialog.append"), BotObservation(a),
                          Event("task_turn_idx += 1")>>
      IN finish(d1, done, task_turn_idx + 1, Some(a), ev1, v)

\* Lines 97-104 and 105-114: the bot decided it is the human's turn
human_branch(bot_act, h, v) ==
    LET ev0 == <<BotActEvent(bot_act), AgentActEvent(h)>> IN
    IF h = None
    THEN Result(dialog, chat_done, task_turn_idx, Some(bot_act),
                "TimeoutError", ev0, sink, grants)
    ELSE
      LET done == has_final_rating(h[1])
          a == [h[1] EXCEPT !.id = Some(HumanName)]
          d1 == Append(dialog, Utterance(0, a))
          ev1 == ev0 \o <<Event("dialog.append"), BotObservation(a),
                          Event("task_turn_idx += 1")>>
      IN finish(d1, done, task_turn_idx + 1, Some(a), ev1, v)

\* Lines 105-111 and 115-128: the bot speaks and the human rates it
bot_branch(bot_act, h, v) ==
    LET d1 == Append(dialog, Utterance(1, bot_act))
        a1 == [bot_act EXCEPT !.needs_rating = Some(TRUE)]
        ev1 == <<BotActEvent(bot_act), Event("dialog.append"),
                 AgentObservation(a1), AgentActEvent(h)>>
    IN
    IF h = None
    THEN Result(d1, chat_done, task_turn_idx, Some(a1), "TimeoutError", ev1,
                sink, grants)
    ELSE
      LET a2 == [h[1] EXCEPT !.text = RATING_ACTION_TEXT] IN
      IF a2.task_data = None
      THEN Result(d1, chat_done, task_turn_idx, Some(a2), "KeyError", ev1,
                  sink, grants)
      ELSE
        LET p == a2.task_data[1].problem_data_for_prior_message
            r == IF p # None
                 THEN add_problem_data_to_utterance(d1, p[1], -1)
                 ELSE [exc |-> "none", dialog |-> d1]
        IN IF r.exc # "none"
           THEN Result(r.dialog, chat_done, task_turn_idx, Some(a2), r.exc,
                       ev1, sink, grants)
           ELSE finish(r.dialog, has_final_rating(a2), task_turn_idx + 1,
                       Some(a2), ev1 \o <<Event("task_turn_idx += 1")>>, v)

\* Mutant: a missing human_turn flag counts as True
human_turn_default_true(bot_act) ==
    IF bot_act.human_turn = None THEN TRUE ELSE bot_act.human_turn[1]

\* act.get('human_turn', False), line 94
human_turn(bot_act) ==
    IF bot_act.human_turn = None THEN FALSE ELSE bot_act.human_turn[1]

\* Mutant: a maximum-turn cutoff ends the chat at the second exchange turn
exchange_turn_with_cutoff(bot_act, h, v) ==
    LET r == IF human_turn(bot_act)
             THEN human_branch(bot_act, h, v)
             ELSE bot_branch(bot_act, h, v)
    IN IF task_turn_idx >= 2 /\ r.exc = "none"
       THEN [r EXCEPT !.chat_done = TRUE]
       ELSE r

\* Mutant: the dialog is restarted from the utterance just appended
exchange_turn_keeping_last(bot_act, h, v) ==
    LET r == IF human_turn(bot_act)
             THEN human_branch(bot_act, h, v)
             ELSE bot_branch(bot_act, h, v)
    IN IF Len(r.dialog) > 1 /\ r.exc = "none" /\ ~r.chat_done
       THEN [r EXCEPT !.dialog = <<r.dialog[Len(r.dialog)]>>]
       ELSE r

\* Lines 92-178 when the chat is not done on entry
exchange_turn(bot_act, h, v) ==
    IF human_turn(bot_act)
    THEN human_branch(bot_act, h, v)
    ELSE bot_branch(bot_act, h, v)

\* Mutant: the act of the terminating invocation is still at hand, so the
\* termination block runs again
after_done_with_last_act(v) ==
    LET last == Message(RATING_ACTION_TEXT, None, None,
                        Some([final_rating |-> dialog[Len(dialog)].final_rating,
                              problem_data_for_prior_message |-> None]))
    IN finish(dialog, chat_done, task_turn_idx, Some(last), << >>, v)

\* Lines 92 and 132-178 when the chat is already done on entry: no act is
\* requested and the local act is still None
after_done(v) ==
    finish(dialog, chat_done, task_turn_idx, None, << >>, v)

Apply(r) ==
    /\ dialog' = r.dialog
    /\ chat_done' = r.chat_done
    /\ task_turn_idx' = r.task_turn_idx
    /\ act' = r.act
    /\ exc' = r.exc
    /\ events' = r.events
    /\ sink' = r.sink
    /\ grants' = r.grants
    /\ calls' = calls + 1

\* parley() at turn 0, lines 82-85
ParleyInitialTurn ==
    /\ calls < MaxCalls
    /\ task_turn_idx = 0
    /\ bot_agent_id' = None
    /\ agent_agent_id' = None
    /\ LET r == run_initial_turn IN
       Apply(Result(dialog, chat_done,
                    IF r.exc = "none" THEN task_turn_idx + 1 ELSE task_turn_idx,
                    None, r.exc, r.events, sink, grants))
    /\ UNCHANGED <<include_persona, has_location, persona_is_dict>>
    /\ UNCHANGED <<worldVars, ctxVars>>

\* parley() at a later turn while the chat is not done, lines 92-178
ParleyExchangeTurn ==
    /\ calls < MaxCalls
    /\ task_turn_idx # 0
    /\ ~chat_done
    /\ \E bot_act \in BotActs, h \in HumanResponses, v \in Violations :
          Apply(exchange_turn(bot_act, h, v))
    /\ UNCHANGED <<include_persona, has_location, persona_is_dict,
                   bot_agent_id, agent_agent_id>>
    /\ UNCHANGED <<worldVars, ctxVars>>

\* parley() once the chat is done, lines 92 and 132-133
ParleyAfterDone ==
    /\ calls < MaxCalls
    /\ task_turn_idx # 0
    /\ chat_done
    /\ \E v \in Violations : Apply(after_done(v))
    /\ UNCHANGED <<include_persona, has_location, persona_is_dict,
                   bot_agent_id, agent_agent_id>>
    /\ UNCHANGED <<worldVars, ctxVars>>

----------------------------------------------------------------------------
(* Values of the variables a specification does not use *)

Models == <<"A", "B">>          \* the keys of conversations_needed, in order
ModelSet == {Models[i] : i \in 1..Len(Models)}
Starters == 1..NumStarters
Generators == 1..2

WorldIdle ==
    /\ conversations_needed = [m \in ModelSet |-> 0]
    /\ run_statistics = [m \in ModelSet |-> 0]
    /\ lock = None
    /\ pc = [t \in Starters |-> "idle"]
    /\ model_name = [t \in Starters |-> None]

CtxIdle ==
    /\ global_rng = 0
    /\ gen_seed = [g \in Generators |-> None]
    /\ gen_rng = [g \in Generators |-> 0]
    /\ contexts = [g \in Generators |-> << >>]

\* MultipartyChatWorld.__init__: a fresh world for some deployment options and
\* some context
WorldInit ==
    /\ task_turn_idx = 0
    /\ chat_done = FALSE
    /\ dialog = << >>
    /\ include_persona \in BOOLEAN
    /\ has_location \in BOOLEAN
    /\ persona_is_dict \in BOOLEAN
    /\ bot_agent_id = Some("bot")
    /\ agent_agent_id = Some("agent")
    /\ act = None
    /\ exc = "none"
    /\ events = << >>
    /\ sink = << >>
    /\ grants = 0
    /\ calls = 0

Init == WorldInit /\ WorldIdle /\ CtxIdle

Next == ParleyInitialTurn \/ ParleyExchangeTurn \/ ParleyAfterDone

Spec == Init /\ [][Next]_vars

----------------------------------------------------------------------------
(* The random module: a generator is a state of a linear congruential        *)
(* sequence; every draw advances the state of the generator it is drawn from *)

RngModulus == 8
RngMultiplier == 5
RngIncrement == 3
RngStates == 0..(RngModulus - 1)

\* random.Random(seed): the state a seed gives
SeedState(seed) == seed % RngModulus

NextRng(state) == (RngMultiplier * state + RngIncrement) % RngModulus

\* The index (from 1) random.choice picks in a sequence of n elements when
\* the generator is in the given state
ChoiceIndex(state, n) == ((NextRng(state) \div 2) % n) + 1

\* get_settings(): the hand-selected settings
get_settings ==
    <<[personas |-> <<"grass snake", "tribesman", "thief">>,
       location |-> "Bamboo hut"],
      [personas |-> <<"clergy", "Nuns", "priest">>,
       location |-> "Church Entryway"]>>

\* ContextGenerator.get_context(): random.choice draws from the generator of
\* the random module, not from self.rng
get_context(rng) ==
    LET setting == get_settings[ChoiceIndex(rng, Len(get_settings))] IN
    [context_dataset |-> "multi-modelchat",
     personas |-> setting.personas,
     location |-> setting.location]

\* ContextGenerator.__init__ for each generator, in a process whose random
\* module is in any state
ContextInit ==
    /\ global_rng \in RngStates
    /\ gen_seed \in [Generators -> {None} \cup {Some(x) : x \in 0..MaxSeed}]
    /\ gen_rng \in [Generators -> RngStates]
    /\ \A g \in Generators :
          gen_seed[g] # None => gen_rng[g] = SeedState(gen_seed[g][1])
    /\ contexts = [g \in Generators |-> << >>]

\* One get_context() call on generator g
GetContext(g) ==
    /\ Len(contexts[g]) < MaxContextCalls
    /\ contexts' = [contexts EXCEPT ![g] = Append(@, get_context(global_rng))]
    /\ global_rng' = NextRng(global_rng)
    /\ UNCHANGED <<gen_seed, gen_rng>>
    /\ UNCHANGED <<parleyVars, worldVars>>

ParleyIdle ==
    /\ WorldInit
    /\ include_persona /\ has_location /\ persona_is_dict

InitContext == ParleyIdle /\ WorldIdle /\ ContextInit

NextContext == \E g \in Generators : GetContext(g)

SpecContext == InitContext /\ [][NextContext]_vars

----------------------------------------------------------------------------
(* make_world: each starter is one call, running concurrently with the others *)

RECURSIVE InsertDescending(_, _)
\* Insert pair x into the sequence s sorted by descending count, after the
\* pairs whose count is not smaller (the sort is stable)
InsertDescending(s, x) ==
    IF s = << >> THEN <<x>>
    ELSE IF Head(s)[2] >= x[2]
         THEN <<Head(s)>> \o InsertDescending(Tail(s), x)
         ELSE <<x>> \o s

RECURSIVE SortDescending(_)
\* list.sort(reverse=True, key=lambda x: x[1])
SortDescending(s) ==
    IF s = << >> THEN << >>
    ELSE InsertDescending(SortDescending(SubSeq(s, 1, Len(s) - 1)), s[Len(s)])

\* Lines 219-221
remaining_counts_needed ==
    [i \in 1..Len(Models) |->
        <<Models[i], conversations_needed[Models[i]] - run_statistics[Models[i]]>>]

\* Lines 219-223: the model the critical section picks
choose_model == SortDescending(remaining_counts_needed)[1][1]

\* Lines 207-214
MakeWorldGetContext(t) ==
    /\ pc[t] = "start"
    /\ global_rng' = NextRng(global_rng)
    /\ pc' = [pc EXCEPT ![t] = "acquire"]
    /\ UNCHANGED <<gen_seed, gen_rng, contexts>>
    /\ UNCHANGED <<conversations_needed, run_statistics, lock, model_name>>
    /\ UNCHANGED parleyVars

\* Line 218: with statistics_condition (enter)
MakeWorldAcquire(t) ==
    /\ pc[t] = "acquire"
    /\ lock = None
    /\ lock' = Some(t)
    /\ pc' = [pc EXCEPT ![t] = "decide"]
    /\ UNCHANGED <<conversations_needed, run_statistics, model_name>>
    /\ UNCHANGED <<parleyVars, ctxVars>>

\* Lines 219-225
MakeWorldDecide(t) ==
    /\ pc[t] = "decide"
    /\ lock = Some(t)
    /\ model_name' = [model_name EXCEPT ![t] = Some(choose_model)]
    /\ pc' = [pc EXCEPT ![t] = "release"]
    /\ UNCHANGED <<conversations_needed, run_statistics, lock>>
    /\ UNCHANGED <<parleyVars, ctxVars>>

\* Line 225-226: with statistics_condition (exit)
MakeWorldRelease(t) ==
    /\ pc[t] = "release"
    /\ lock = Some(t)
    /\ lock' = None
    /\ pc' = [pc EXCEPT ![t] = "construct"]
    /\ UNCHANGED <<conversations_needed, run_statistics, model_name>>
    /\ UNCHANGED <<parleyVars, ctxVars>>

\* Lines 226-230: the bot worker and the world are made
MakeWorldReturn(t) ==
    /\ pc[t] = "construct"
    /\ pc' = [pc EXCEPT ![t] = "running"]
    /\ UNCHANGED <<conversations_needed, run_statistics, lock, model_name>>
    /\ UNCHANGED <<parleyVars, ctxVars>>

\* The conversation of starter t completes and is counted in run_statistics
ConversationCounted(t) ==
    /\ pc[t] = "running"
    /\ run_statistics' =
          [run_statistics EXCEPT ![model_name[t][1]] = @ + 1]
    /\ pc' = [pc EXCEPT ![t] = "counted"]
    /\ UNCHANGED <<conversations_needed, lock, model_name>>
    /\ UNCHANGED <<parleyVars, ctxVars>>

RECURSIVE Sum(_, _)
Sum(f, S) ==
    IF S = {} THEN 0
    ELSE LET x == CHOOSE y \in S : TRUE IN f[x] + Sum(f, S \ {x})

\* The driver starts no more conversations than are needed in total
MakeWorldInit ==
    /\ conversations_needed \in [ModelSet -> 1..MaxNeeded]
    /\ Sum(conversations_needed, ModelSet) >= NumStarters
    /\ run_statistics = [m \in ModelSet |-> 0]
    /\ lock = None
    /\ pc = [t \in Starters |-> "start"]
    /\ model_name = [t \in Starters |-> None]

InitMakeWorld ==
    /\ ParleyIdle
    /\ MakeWorldInit
    /\ global_rng \in RngStates
    /\ gen_seed = [g \in Generators |-> None]
    /\ gen_rng = [g \in Generators |-> 0]
    /\ contexts = [g \in Generators |-> << >>]

NextMakeWorld ==
    \E t \in Starters :
        \/ MakeWorldGetContext(t)
        \/ MakeWorldAcquire(t)
        \/ MakeWorldDecide(t)
        \/ MakeWorldRelease(t)
        \/ MakeWorldReturn(t)
        \/ ConversationCounted(t)

SpecMakeWorld == InitMakeWorld /\ [][NextMakeWorld]_vars

----------------------------------------------------------------------------
(* The attach helper called on its own, as parley calls it (turn_idx = -1) *)

StrayProblemData == {"p1", "p2"}

StrayAttach ==
    /\ calls < MaxCalls
    /\ dialog # << >>
    /\ \E p \in StrayProblemData :
          LET r == add_problem_data_to_utterance(dialog, p, -1) IN
          /\ dialog' = r.dialog
          /\ exc' = r.exc
    /\ events' = <<Event("add_problem_data_to_utterance")>>
    /\ calls' = calls + 1
    /\ UNCHANGED <<task_turn_idx, chat_done, include_persona, has_location,
                   persona_is_dict, bot_agent_id, agent_agent_id, act, sink,
                   grants>>
    /\ UNCHANGED <<worldVars, ctxVars>>

NextAttach ==
    ParleyInitialTurn \/ ParleyExchangeTurn \/ ParleyAfterDone \/ StrayAttach

SpecAttach == Init /\ [][NextAttach]_vars

----------------------------------------------------------------------------
(* Claims about parley *)

ActRequested(ev) ==
    \E i \in 1..Len(ev) : ev[i].call \in {"bot.act", "agent.act"}

Calls(ev, call) == {i \in 1..Len(ev) : ev[i].call = call}

\* C1: once chat_done is true, a further parley invocation is a no-op: it
\* returns without failure, leaves the dialog, the turn index and chat_done
\* unchanged, requests no act, writes nothing and grants nothing.
C1_AfterDoneIsNoOp ==
    [][chat_done =>
          /\ exc' = "none"
          /\ dialog' = dialog
          /\ task_turn_idx' = task_turn_idx
          /\ chat_done'
          /\ ~ActRequested(events')
          /\ sink' = sink
          /\ grants' = grants]_vars

\* C2: the final chat data is written at most once over all invocations,
\* exactly once in the invocation in which chat_done turns true, and never
\* while chat_done is false.
C2_WrittenExactlyOnce ==
    [][/\ Len(sink') <= 1
       /\ ~chat_done' => sink' = << >>
       /\ IF ~chat_done /\ chat_done'
          THEN Len(sink') = Len(sink) + 1
          ELSE sink' = sink]_vars

C2_Witness ==
    /\ chat_done
    /\ Len(sink) = 1
    /\ exc = "TypeError"
    /\ calls = 3

\* C3: the block qualification is granted exactly once when the violations of
\* the final chat data are non-empty, never when they are "" or None, and
\* never before termination.
C3_GrantIffViolations ==
    grants = IF /\ chat_done
                /\ sink # << >>
                /\ sink[1].acceptability_violations[1] \notin {None, Some("")}
             THEN 1
             ELSE 0

C3_Witness ==
    /\ grants = 1
    /\ sink[1].acceptability_violations[1] = Some("rude")
    /\ calls = 3
    /\ exc = "TypeError"

\* C4: chat_done is monotonic: it turns true only in an exchange turn whose
\* human act carries a non-null final_rating (the human's utterance or the
\* human's rating action), and once true it stays true.
C4_DoneMonotonic ==
    [][/\ chat_done => chat_done'
       /\ (~chat_done /\ chat_done') =>
             /\ task_turn_idx >= 1
             /\ Calls(events', "agent.act") # {}
             /\ act' # None
             /\ act'[1].id = Some(HumanName) \/ act'[1].text = RATING_ACTION_TEXT
             /\ act'[1].task_data # None
             /\ act'[1].task_data[1].final_rating # None]_vars

C4_Witness ==
    /\ chat_done
    /\ dialog[Len(dialog)].agent_idx = 0
    /\ exc = "TypeError"

\* C5 as stated: the turn index never decreases and every invocation made
\* while the chat is not done advances it by exactly 1.
C5_EveryInvocationAdvances ==
    [][/\ task_turn_idx' >= task_turn_idx
       /\ ~chat_done => task_turn_idx' = task_turn_idx + 1]_vars

\* C5 amended: the turn index never decreases; every invocation made while
\* the chat is not done that returns advances it by exactly 1; an invocation
\* that raises, or that is made once the chat is done, leaves it unchanged.
C5_ReturningInvocationAdvances ==
    [][/\ task_turn_idx' >= task_turn_idx
       /\ (~chat_done /\ exc' = "none") => task_turn_idx' = task_turn_idx + 1
       /\ (chat_done \/ exc' # "none") => task_turn_idx' = task_turn_idx]_vars

C5_Witness ==
    /\ task_turn_idx = 2
    /\ exc = "none"
    /\ dialog[Len(dialog)].agent_idx = 0

\* C7 as stated: after the first invocation with include_persona and a
\* context with personas and a location, the turn index is 1, the dialog is
\* empty, no act was requested, the bot and the human each got exactly one
\* persona-setting observation with the personas and the location, and each
\* was delivered as not incrementing the recipient's turn counter.
C7_NeitherChargedATurn ==
    (calls = 1 /\ include_persona /\ persona_is_dict /\ has_location) =>
        /\ task_turn_idx = 1
        /\ dialog = << >>
        /\ ~ActRequested(events)
        /\ Cardinality(Calls(events, "bot.observe")) = 1
        /\ Cardinality(Calls(events, "agent.observe")) = 1
        /\ \A i \in 1..Len(events) :
              /\ events[i].id = PERSONA_SETTER_AGENT
              /\ events[i].personas /\ events[i].location
              /\ events[i].increment_turn = "False"

\* C7 amended: ... the bot's observation is delivered with
\* increment_turn=False; the human's is delivered without an increment_turn
\* argument, so the human proxy's default applies.
C7_InitialTurn ==
    (calls = 1 /\ include_persona /\ persona_is_dict /\ has_location) =>
        /\ task_turn_idx = 1
        /\ dialog = << >>
        /\ ~ActRequested(events)
        /\ Cardinality(Calls(events, "bot.observe")) = 1
        /\ Cardinality(Calls(events, "agent.observe")) = 1
        /\ \A i \in 1..Len(events) :
              /\ events[i].id = PERSONA_SETTER_AGENT
              /\ events[i].personas /\ events[i].location
              /\ events[i].increment_turn =
                    IF events[i].call = "bot.observe" THEN "False" ELSE "default"

C7_Witness ==
    /\ calls = 1
    /\ include_persona /\ persona_is_dict /\ has_location
    /\ Len(events) = 2
    /\ exc = "none"

RatingActionWith(a, r) ==
    /\ a # None
    /\ a[1].text = RATING_ACTION_TEXT
    /\ a[1].task_data # None
    /\ a[1].task_data[1].final_rating = Some(r)

\* C8: a dialog entry carries final_rating only if chat_done, at most one
\* entry carries it, it is the last entry, and its value is the final_rating
\* of the human act that ended the chat; when the bot speaks and the human's
\* rating action carries {score: 4}, the dialog gains exactly one entry (of
\* the bot), chat_done is true and the last entry's final_rating is {score: 4}.
C8_FinalRatingOnLastEntry ==
    [][/\ \A i \in 1..Len(dialog') :
             dialog'[i].final_rating # None => chat_done' /\ i = Len(dialog')
       /\ (~chat_done /\ chat_done') =>
             /\ dialog' # << >>
             /\ dialog'[Len(dialog')].final_rating # None
             /\ dialog'[Len(dialog')].final_rating =
                    act'[1].task_data[1].final_rating
       /\ chat_done =>
             dialog'[Len(dialog')].final_rating = dialog[Len(dialog)].final_rating
       /\ (~chat_done /\ exc' = "none" /\ RatingActionWith(act', [score |-> 4])) =>
             /\ Len(dialog') = Len(dialog) + 1
             /\ SubSeq(dialog', 1, Len(dialog)) = dialog
             /\ dialog'[Len(dialog')].agent_idx = 1
             /\ chat_done'
             /\ dialog'[Len(dialog')].final_rating = Some([score |-> 4])]_vars

C8_Witness ==
    /\ chat_done
    /\ Len(dialog) = 2
    /\ dialog[1].final_rating = None
    /\ dialog[2].agent_idx = 1
    /\ dialog[2].final_rating = Some([score |-> 4])
    /\ RatingActionWith(act, [score |-> 4])

----------------------------------------------------------------------------
(* Claims about __add_problem_data_to_utterance *)

\* C6: every dialog entry with problem_data is a bot utterance, it was the
\* last entry when the data was attached, and the data is attached once and
\* never overwritten; an attach on an entry that is not a bot utterance or
\* that already has problem_data raises an AssertionError and leaves the
\* entry as it was.
C6_ProblemDataAttachedOnce ==
    [][/\ Len(dialog') >= Len(dialog)
       /\ \A i \in 1..Len(dialog') :
             dialog'[i].problem_data # None => dialog'[i].agent_idx = 1
       /\ \A i \in 1..Len(dialog) :
             dialog[i].problem_data # None =>
                dialog'[i].problem_data = dialog[i].problem_data
       /\ \A i \in 1..Len(dialog') :
             (/\ dialog'[i].problem_data # None
              /\ (i > Len(dialog) \/ dialog[i].problem_data = None)) =>
                i = Len(dialog')
       /\ (/\ Calls(events', "add_problem_data_to_utterance") # {}
           /\ \/ dialog[Len(dialog)].agent_idx # 1
              \/ dialog[Len(dialog)].problem_data # None) =>
                exc' = "AssertionError" /\ dialog' = dialog]_vars

C6_Witness ==
    /\ exc = "AssertionError"
    /\ Calls(events, "add_problem_data_to_utterance") # {}
    /\ dialog[Len(dialog)].agent_idx = 1
    /\ dialog[Len(dialog)].problem_data = Some("p1")

----------------------------------------------------------------------------
(* Claims about make_world *)

InFlight(m) ==
    {t \in Starters :
        /\ model_name[t] = Some(m)
        /\ pc[t] \in {"release", "construct", "running"}}

\* C9: no model is assigned to more started conversations than its remaining
\* needed count (conversations_needed minus run_statistics) allows.
C9_NoOverAssignment ==
    \A m \in ModelSet :
        Cardinality(InFlight(m)) <= conversations_needed[m] - run_statistics[m]

----------------------------------------------------------------------------
(* Claims about ContextGenerator *)

Min(a, b) == IF a <= b THEN a ELSE b

\* C10: two ContextGenerators constructed with the same seed return equal
\* contexts on their corresponding get_context() calls, whatever the state of
\* the random module.
C10_SameSeedSameContexts ==
    \A g1 \in Generators, g2 \in Generators :
        (gen_seed[g1] # None /\ gen_seed[g1] = gen_seed[g2]) =>
            \A k \in 1..Min(Len(contexts[g1]), Len(contexts[g2])) :
                contexts[g1][k] = contexts[g2][k]

----------------------------------------------------------------------------
(* Claims about the exchange turn *)

\* The act the bot returned in the invocation with calls ev
BotActOf(ev) == ev[1]

\* The act the human returned in the invocation with calls ev (if any)
AgentActs(ev) == {i \in Calls(ev, "agent.act") : ev[i].outcome = "returned"}

\* The invocation with calls ev is an exchange turn in which the bot decided
\* it is the human's turn
HumanTurn(ev) ==
    /\ ev # << >>
    /\ ev[1].call = "bot.act"
    /\ ev[1].human_turn = Some(TRUE)

\* ... or in which the bot speaks (the flag is False or absent)
BotTurn(ev) ==
    /\ ev # << >>
    /\ ev[1].call = "bot.act"
    /\ ev[1].human_turn # Some(TRUE)

\* s is t up to (excluding) the first occurrence of '<br>' in t
IsStripOf(s, t) ==
    /\ Len(s) <= Len(t)
    /\ s = SubSeq(t, 1, Len(s))
    /\ \A i \in 1..Len(s) :
          i + Len(BR) - 1 <= Len(t) => SubSeq(t, i, i + Len(BR) - 1) # BR
    /\ Len(s) < Len(t) =>
          /\ Len(s) + Len(BR) <= Len(t)
          /\ SubSeq(t, Len(s) + 1, Len(s) + Len(BR)) = BR

\* C11: the text of every appended utterance is the act's text up to the
\* first '<br>': a text without '<br>' is stored unchanged, 'hello<br>extra'
\* is stored as 'hello', no stored text contains '<br>', and stripping twice
\* is stripping once.  The last conjunct is about the function alone, on every
\* text of Texts; it does not depend on the state and is evaluated in the
\* steps of the initial turn.
C11_TextStrippedAtFirstBr ==
    [][/\ Len(dialog') = Len(dialog) + 1 =>
             LET stored == dialog'[Len(dialog')].text
                 source == IF HumanTurn(events')
                           THEN events'[2].text
                           ELSE BotActOf(events').text
             IN /\ IsStripOf(stored, source)
                /\ Occurrences(source, BR) = {} => stored = source
                /\ source = TextHelloBrExtra => stored = TextHello
       /\ \A i \in 1..Len(dialog') :
             /\ Occurrences(dialog'[i].text, BR) = {}
             /\ SplitFirst(dialog'[i].text, BR) = dialog'[i].text
       /\ task_turn_idx = 0 =>
             \A t \in Texts :
                /\ IsStripOf(SplitFirst(t, BR), t)
                /\ SplitFirst(SplitFirst(t, BR), BR) = SplitFirst(t, BR)]_vars

C11_Witness ==
    /\ Len(dialog) = 2
    /\ dialog[1].text = TextHello
    /\ dialog[1].agent_idx = 0
    /\ dialog[2].text = TextPartial
    /\ exc = "none"

\* The task_data td of an act carries a non-null final_rating
CarriesRating(td) == td # None /\ td[1].final_rating # None

\* The step appends exactly one utterance and keeps the earlier ones
AppendsOne(d, d2) ==
    /\ Len(d2) = Len(d) + 1
    /\ SubSeq(d2, 1, Len(d)) = d

\* The bot's act and the human's act are each requested exactly once
EachActsOnce(ev) ==
    /\ Cardinality(Calls(ev, "bot.act")) = 1
    /\ Cardinality(Calls(ev, "agent.act")) = 1

\* The utterance u is built from the human's act logged as e
FromHumanAct(u, e) ==
    /\ u.agent_idx = 0
    /\ u.id = HumanName
    /\ IsStripOf(u.text, e.text)

\* The utterance u is built from the bot's act logged as e
FromBotAct(u, e) ==
    /\ u.agent_idx = 1
    /\ u.id = (IF e.id = "" THEN NULL_ID ELSE e.id)
    /\ IsStripOf(u.text, e.text)

\* C12 as stated: in every exchange turn the human_turn flag of the bot's act
\* (absent: False) alone decides the speaker: if True, exactly one utterance of
\* the human is appended, built from the human's act with the id set to the
\* human persona's name, and chat_done is set iff that act carries a non-null
\* final_rating; if False, exactly one utterance of the bot is appended, built
\* from the bot's act.  Each act is requested exactly once.
C12_OneUtterancePerExchange ==
    [][/\ HumanTurn(events') =>
             /\ EachActsOnce(events')
             /\ AppendsOne(dialog, dialog')
             /\ FromHumanAct(dialog'[Len(dialog')], events'[2])
             /\ chat_done' <=> CarriesRating(events'[2].task_data)
       /\ BotTurn(events') =>
             /\ EachActsOnce(events')
             /\ AppendsOne(dialog, dialog')
             /\ FromBotAct(dialog'[Len(dialog')], BotActOf(events'))]_vars

\* C12 amended: as stated when the human's act arrives; when the bot decided
\* it is the human's turn and the human's act times out, nothing is appended
\* and chat_done stays false.
C12_SpeakerDecidedByBot ==
    [][/\ HumanTurn(events') =>
             /\ EachActsOnce(events')
             /\ IF AgentActs(events') # {}
                THEN /\ AppendsOne(dialog, dialog')
                     /\ FromHumanAct(dialog'[Len(dialog')], events'[2])
                     /\ chat_done' <=> CarriesRating(events'[2].task_data)
                ELSE /\ dialog' = dialog
                     /\ ~chat_done'
       /\ BotTurn(events') =>
             /\ EachActsOnce(events')
             /\ AppendsOne(dialog, dialog')
             /\ FromBotAct(dialog'[Len(dialog')], BotActOf(events'))]_vars

C12_Witness ==
    /\ HumanTurn(events)
    /\ AgentActs(events) # {}
    /\ exc = "none"
    /\ chat_done
    /\ dialog[Len(dialog)].id = HumanName
    /\ dialog[Len(dialog)].text = TextHello

\* The one position of call in ev (0: it is not called exactly once)
PositionOf(ev, call) ==
    IF Cardinality(Calls(ev, call)) = 1
    THEN CHOOSE i \in Calls(ev, call) : TRUE
    ELSE 0

\* C13: in an exchange turn with human_turn false the bot's utterance is
\* appended, then the bot's act is delivered to the human with needs_rating
\* set, then the human's next act is awaited; the text of that act is
\* overwritten with the rating marker and is never appended, so the turn adds
\* no utterance of the human.
C13_BotTurnOrder ==
    [][BotTurn(events') =>
          /\ PositionOf(events', "dialog.append") > 0
          /\ PositionOf(events', "dialog.append")
                < PositionOf(events', "agent.observe")
          /\ PositionOf(events', "agent.observe")
                < PositionOf(events', "agent.act")
          /\ events'[PositionOf(events', "agent.observe")].needs_rating
          /\ events'[PositionOf(events', "agent.observe")].id
                = dialog'[Len(dialog')].id
          /\ AgentActs(events') # {} =>
                /\ act'[1].text = RATING_ACTION_TEXT
                /\ act'[1].task_data
                      = events'[PositionOf(events', "agent.act")].task_data
          /\ AppendsOne(dialog, dialog')
          /\ FromBotAct(dialog'[Len(dialog')], BotActOf(events'))
          /\ \A i \in 1..Len(dialog') :
                dialog'[i].text # RATING_ACTION_TEXT]_vars

C13_Witness ==
    /\ BotTurn(events)
    /\ AgentActs(events) # {}
    /\ exc = "none"
    /\ ~chat_done
    /\ act[1].text = RATING_ACTION_TEXT
    /\ Len(dialog) = 1
    /\ dialog[1].agent_idx = 1

\* C14: in the invocation that sets chat_done the turn index is advanced
\* first; then the final rating is written onto the last utterance, then the
\* final chat data is assembled (so the written data has the final rating on
\* its last utterance), then it is written, and only then the qualification is
\* granted, if the violations are non-empty.
C14_TerminationOrder ==
    [][(~chat_done /\ chat_done') =>
          LET ev == events'
              written == sink'[Len(sink')]
          IN /\ task_turn_idx' = task_turn_idx + 1
             /\ PositionOf(ev, "task_turn_idx += 1") > 0
             /\ PositionOf(ev, "task_turn_idx += 1")
                   < PositionOf(ev, "set final_rating")
             /\ PositionOf(ev, "set final_rating")
                   < PositionOf(ev, "get_final_chat_data")
             /\ PositionOf(ev, "get_final_chat_data") < PositionOf(ev, "write")
             /\ Len(sink') = Len(sink) + 1
             /\ written.dialog = dialog'
             /\ written.dialog[Len(written.dialog)].final_rating # None
             /\ IF written.acceptability_violations[1] \in {None, Some("")}
                THEN Calls(ev, "grant_qualification") = {} /\ grants' = grants
                ELSE /\ PositionOf(ev, "write")
                          < PositionOf(ev, "grant_qualification")
                     /\ grants' = grants + 1]_vars

C14_Witness ==
    /\ chat_done
    /\ exc = "none"
    /\ grants = 1
    /\ Calls(events, "grant_qualification") = {Len(events)}
    /\ sink[1].dialog[Len(dialog)].final_rating = Some([score |-> 5])

----------------------------------------------------------------------------
(* The driver keeps invoking parley and the human eventually rates *)

\* The behaviours are the program's for these acts of the bot and of the human
LiveBotActs ==
    {a \in BotActs : a.text = TextPartial /\ a.id = Some(BotName)}
LiveHumanActs ==
    {a \in HumanActs :
        /\ a.text = TextHi
        /\ a.task_data # None =>
              /\ a.task_data[1].problem_data_for_prior_message = None
              /\ a.task_data[1].final_rating # Some([score |-> 5])}
LiveHumanResponses == {None} \cup {Some(a) : a \in LiveHumanActs}
LiveViolations == {None, Some("rude")}

\* The acts of the human that carry a non-null final_rating
RatedHumanActs == {a \in LiveHumanActs : CarriesRating(a.task_data)}

\* parley() at a later turn while the chat is not done, lines 92-178
LiveExchangeTurn ==
    /\ calls < MaxCalls
    /\ task_turn_idx # 0
    /\ ~chat_done
    /\ \E bot_act \in LiveBotActs, h \in LiveHumanResponses,
          v \in LiveViolations :
            Apply(exchange_turn(bot_act, h, v))
    /\ UNCHANGED <<include_persona, has_location, persona_is_dict,
                   bot_agent_id, agent_agent_id>>
    /\ UNCHANGED <<worldVars, ctxVars>>

\* parley() at a later turn while the chat is not done, with a human act that
\* arrives and carries a final rating; the driver can always make this call
ParleyRatedExchange ==
    /\ task_turn_idx # 0
    /\ ~chat_done
    /\ \E bot_act \in LiveBotActs, a \in RatedHumanActs, v \in LiveViolations :
          LET r == exchange_turn(bot_act, Some(a), v) IN
          /\ dialog' = r.dialog
          /\ chat_done' = r.chat_done
          /\ task_turn_idx' = r.task_turn_idx
          /\ act' = r.act
          /\ exc' = r.exc
          /\ events' = r.events
          /\ sink' = r.sink
          /\ grants' = r.grants
    /\ calls' = IF calls < MaxCalls THEN calls + 1 ELSE calls
    /\ UNCHANGED <<include_persona, has_location, persona_is_dict,
                   bot_agent_id, agent_agent_id>>
    /\ UNCHANGED <<worldVars, ctxVars>>

NextLive ==
    \/ ParleyInitialTurn
    \/ LiveExchangeTurn
    \/ ParleyAfterDone
    \/ ParleyRatedExchange

SpecLive ==
    /\ Init
    /\ [][NextLive]_vars
    /\ WF_vars(ParleyInitialTurn)
    /\ WF_vars(ParleyRatedExchange)

\* The context lets the initial turn succeed
WellConfigured == ~include_persona \/ (persona_is_dict /\ has_location)

\* C15: when the driver keeps invoking parley and a human act eventually
\* carries a non-null final_rating, the conversation eventually is done and
\* its data written; there is no maximum-turn cutoff: an exchange turn whose
\* human act carries no final rating leaves the conversation not done.
C15_EventuallyDone ==
    /\ WellConfigured ~> (task_turn_idx >= 1)
    /\ (task_turn_idx >= 1) ~> (chat_done /\ Len(sink) = 1)
    /\ [][(/\ task_turn_idx >= 1
           /\ ~chat_done
           /\ \A i \in AgentActs(events') :
                 ~CarriesRating(events'[i].task_data)) =>
             /\ ~chat_done'
             /\ sink' = << >>]_vars

C15_Witness ==
    /\ chat_done
    /\ Len(sink) = 1
    /\ task_turn_idx = 3
    /\ calls = 3
    /\ exc = "none"

(***************************************************************************)
(* Claims about failures of an exchange turn                               *)
(***************************************************************************)

\* The problem data carried by the human's act logged as e (None: none)
CarriedProblemData(e) ==
    IF e.task_data = None THEN None
    ELSE e.task_data[1].problem_data_for_prior_message

\* C16: in an exchange turn with human_turn false in which the human's rating
\* act carries problem data for the prior message, the data is attached to the
\* last entry of the dialog, which is the bot utterance appended by this
\* invocation and carried no problem data; no exchange turn ends with a failed
\* assertion.
C16_AttachNeverFails ==
    [][/\ Calls(events', "bot.act") # {} => exc' # "AssertionError"
       /\ BotTurn(events') =>
             \A i \in AgentActs(events') :
                CarriedProblemData(events'[i]) # None =>
                   /\ AppendsOne(dialog, dialog')
                   /\ FromBotAct(dialog'[Len(dialog')], BotActOf(events'))
                   /\ dialog'[Len(dialog')].problem_data
                         = CarriedProblemData(events'[i])
                   /\ exc' = "none"]_vars

C16_Witness ==
    /\ BotTurn(events)
    /\ \E i \in AgentActs(events) : CarriedProblemData(events[i]) = Some("p1")
    /\ Len(dialog) = 2
    /\ dialog[1].agent_idx = 0
    /\ dialog[2].agent_idx = 1
    /\ dialog[2].problem_data = Some("p1")
    /\ exc = "none"

\* The observations delivered in the invocation with calls ev
Observations(ev) ==
    Calls(ev, "bot.observe") \cup Calls(ev, "agent.observe")

\* C17: with persona sharing enabled and no location in the context, an
\* invocation delivers no observation to either participant and changes
\* neither the display identifiers of the participants nor the turn index nor
\* the dialog.
C17_MissingLocationFailsAtSetup ==
    [][(include_persona /\ ~has_location) =>
          /\ Observations(events') = {}
          /\ bot_agent_id' = bot_agent_id
          /\ agent_agent_id' = agent_agent_id
          /\ task_turn_idx' = task_turn_idx
          /\ dialog' = dialog]_vars

\* The requests for the human's act that timed out in the invocation with
\* calls ev
TimedOutActs(ev) == {i \in Calls(ev, "agent.act") : ev[i].outcome = "timeout"}

\* C18: an exchange turn in which the wait for the human's act times out fails
\* with that timeout; the act is requested only once, the turn index is not
\* advanced, chat_done is not set, nothing is written and nothing is granted.
C18_TimeoutPropagated ==
    [][TimedOutActs(events') # {} =>
          /\ exc' = "TimeoutError"
          /\ Cardinality(Calls(events', "agent.act")) = 1
          /\ Cardinality(Calls(events', "bot.act")) = 1
          /\ task_turn_idx' = task_turn_idx
          /\ chat_done' = chat_done
          /\ ~chat_done'
          /\ sink' = sink
          /\ grants' = grants]_vars

C18_Witness ==
    /\ HumanTurn(events)
    /\ TimedOutActs(events) # {}
    /\ exc = "TimeoutError"
    /\ calls = 3
    /\ task_turn_idx = 2
    /\ Len(dialog) = 1
    /\ sink = << >>

----------------------------------------------------------------------------
(* Claims about the dialog history *)

\* Every invocation so far returned without a failure: each such invocation
\* advances the turn index by one, a failed one does not
AllCompleted == calls = task_turn_idx

\* The entries of d are still in d2, at the same places, with the same
\* agent_idx, text and id
KeepsEntries(d, d2) ==
    /\ Len(d2) >= Len(d)
    /\ \A i \in 1..Len(d) :
          /\ d2[i].agent_idx = d[i].agent_idx
          /\ d2[i].text = d[i].text
          /\ d2[i].id = d[i].id

\* C19: in every state reached by invocations that all completed the dialog
\* has max(0, task_turn_idx - 1) entries: the initial turn appends nothing and
\* every exchange turn appends exactly one utterance.  No invocation removes
\* or reorders an entry or changes the agent_idx, text or id of one.
C19_LengthFollowsTurnIndex ==
    /\ [](AllCompleted =>
            Len(dialog) = (IF task_turn_idx = 0 THEN 0 ELSE task_turn_idx - 1))
    /\ [][/\ KeepsEntries(dialog, dialog')
          /\ (exc' = "none" /\ task_turn_idx = 0) => dialog' = dialog
          /\ (exc' = "none" /\ Calls(events', "bot.act") # {}) =>
                Len(dialog') = Len(dialog) + 1]_vars

C19_Witness ==
    /\ AllCompleted
    /\ task_turn_idx = 3
    /\ Len(dialog) = 2
    /\ dialog[1].agent_idx = 1
    /\ dialog[2].agent_idx = 0
    /\ ~chat_done

\* C20: an invocation that fails because the wait for the human's act times
\* out, in either branch of an exchange turn, leaves the dialog as it was
\* before the invocation.
C20_TimeoutLeavesDialog ==
    [][TimedOutActs(events') # {} => dialog' = dialog]_vars

====
